---------------------------- MODULE Spec2Model ----------------------------
(***************************************************************************)
(* stirrups: a dependency-injection runtime.                               *)
(*                                                                         *)
(* The facade (stirrups/app.py, stirrups/context.py) is modelled from its  *)
(* source.  The resolution engine it imports from stirrups/injection.py    *)
(* (Registry, Provider, Instance, Factory, injectable_factory, Injector)   *)
(* is modelled from sections 3, 4 and 7 of the specification.              *)
(*                                                                         *)
(* The keyword by which the facade hands the explicit key to the Provider  *)
(* and the Injector (key= in app.py, name= in context.py) is not modelled: *)
(* both are the Provider's / the Injector's explicit-key argument.  The    *)
(* keyword by which a caller hands it to Context.get is modelled           *)
(* (ContextGetKeyword).                                                    *)
(***************************************************************************)
EXTENDS Integers, Sequences, FiniteSets, TLC

(***************************************************************************)
(* Bounds                                                                  *)
(***************************************************************************)
MaxCtx == 2     \* contexts that may be created
MaxReg == 3     \* successful registrations (App and Context together)
MaxObj == 2     \* objects built by constructors
MaxDepth == 4   \* nesting of Injector.get before the host's recursion limit

(***************************************************************************)
(* Types (interfaces and constructors) of the test suites, and values      *)
(***************************************************************************)
ROOT == "__root"
LocalRef == "__local"      \* the unnamed Provider() a Context owns

NoKey == "None"         \* key=None / name=None
NoIface == [ns |-> "None", name |-> "None"]      \* iface=None, or a parameter without annotation

TInt == [ns |-> "builtins", name |-> "int"]
TContext == [ns |-> "stirrups.context", name |-> "Context"]
TIClass == [ns |-> "TestInjection", name |-> "_IClass"]
TDepsA == [ns |-> "TestInjection", name |-> "_DepsA"]
TClassA == [ns |-> "TestInjection", name |-> "_ClassA"]
TClassB == [ns |-> "TestInjection", name |-> "_ClassB"]
TUntyped == [ns |-> "TestInjection", name |-> "_Untyped"]
TAFactory == [ns |-> "TestInjection", name |-> "a_factory"]    \* def a_factory(context)
TCtxFactory == [ns |-> "TestRegistration", name |-> "a_factory"]   \* def a_factory(context: Context)
TCycA == [ns |-> "cyclic", name |-> "_CycA"]     \* class _CycA: __init__(self, b: _CycB)
TCycB == [ns |-> "cyclic", name |-> "_CycB"]     \* class _CycB: __init__(self, a: _CycA)

\* A value: an int passed by the caller, a reference to an object built by
\* the caller, a reference to an object built by a constructor (its index
\* in the heap), or a reference to a context.
IntVal(n) == [t |-> "int", n |-> n]
ExtRef(n) == [t |-> "ext", n |-> n]
ObjRef(n) == [t |-> "obj", n |-> n]
CtxRef(c) == [t |-> "ctx", n |-> c]
NoVal == [t |-> "none", n |-> 0]

Param(name, iface) == [name |-> name, iface |-> iface]

\* The declared parameters of each constructor, in declaration order.
Sig(ctor) ==
    CASE ctor = TDepsA -> << >>
      [] ctor = TClassA -> << Param("v", TInt), Param("deps_a", TDepsA) >>
      [] ctor = TClassB -> << Param("class_a", TClassA), Param("deps_a", TDepsA) >>
      [] ctor = TUntyped -> << Param("deps_a", TDepsA), Param("x", NoIface) >>
      [] ctor = TAFactory -> << Param("context", NoIface) >>
      [] ctor = TCtxFactory -> << Param("context", TContext) >>
      [] ctor = TCycA -> << Param("b", TCycB) >>
      [] ctor = TCycB -> << Param("a", TCycA) >>
      [] OTHER -> << >>

(***************************************************************************)
(* State                                                                   *)
(***************************************************************************)
VARIABLES
    providers,   \* App._providers: scope name -> registry of that scope's Provider
    ctxState,    \* per context: "none" (not constructed), "new" (_mounted False), "mounted"
    local,       \* per context: registry of Context.local_provider
    plist,       \* per context: Injector._providers, a sequence of LocalRef / scope names
    ctxScopes,   \* per context: the scopes argument it was created with
    cache,       \* per context: Injector cache, Factory identity -> realized value
    heap,        \* objects constructed so far (class, attributes, arguments of the
                 \* constructor call); an object's identity is its index
    nreg,        \* successful registrations; the n-th one registers injectable n
    setOrder,    \* iteration order of a set of scope names in this process,
                 \* << >> as long as no set of several names has been iterated
    last         \* outcome of the last operation

vars == << providers, ctxState, local, plist, ctxScopes, cache, heap, nreg, setOrder, last >>

Ctxs == 1..MaxCtx

\* Contexts are numbered in the order of their construction.
NextCtx(c) == c \in Ctxs /\ ctxState[c] = "none" /\ \A d \in Ctxs : d < c => ctxState[d] # "none"

(***************************************************************************)
(* Key derivation                                                          *)
(***************************************************************************)
\* interface -> string key: the declared name of the type.
GenerateIfaceKey(iface) == iface.name

\* explicit key wins; else the key of iface; else the key of the
\* injectable's own underlying type.
EffectiveKey(key, iface, injectable) ==
    IF key # NoKey THEN key
    ELSE IF iface # NoIface THEN GenerateIfaceKey(iface)
    ELSE GenerateIfaceKey(injectable.type)

(***************************************************************************)
(* Injectables                                                             *)
(***************************************************************************)
Instance(val, type) ==
    [kind |-> "Instance", fid |-> 0, type |-> type, cache |-> FALSE, val |-> val]

\* The implicit first parameter, which receives the owning context.
SessionParam(sig) == Len(sig) > 0 /\ sig[1] = Param("context", NoIface)

\* Factory.dependencies: the declared parameters after the implicit one.
Dependencies(sig) == IF SessionParam(sig) THEN Tail(sig) ELSE sig

\* The class of the object a constructor returns: a_factory returns a _ClassA.
ResultClass(ctor) == IF ctor \in {TAFactory, TCtxFactory} THEN TClassA ELSE ctor

\* fid is the identity of the Factory object: the number of the registration
\* that made it, 0 for a transient Factory that is never registered.
InjectableFactory(item, cache_, fid) ==
    [kind |-> "Factory", fid |-> fid, type |-> item, cache |-> cache_, val |-> NoVal]

(***************************************************************************)
(* Keyed registry                                                          *)
(***************************************************************************)
EmptyRegistry == << >>

NoEntry == [mode |-> "none", items |-> << >>]

RegistryContains(reg, key) == key \in DOMAIN reg

RegistryGet(reg, key) == IF RegistryContains(reg, key) THEN reg[key] ELSE NoEntry

RegOut(status, reg) == [status |-> status, reg |-> reg]

RegistryRegister(reg, key, value, aslist, force) ==
    IF ~RegistryContains(reg, key)
    THEN RegOut("ok", (key :> [mode |-> IF aslist THEN "list" ELSE "single",
                               items |-> << value >>]) @@ reg)
    ELSE IF reg[key].mode = "single"
    THEN IF aslist THEN RegOut("Undefined", reg)
         ELSE IF force
              THEN RegOut("ok", [reg EXCEPT ![key] = [mode |-> "single", items |-> << value >>]])
              ELSE RegOut("ItemExists", reg)
    ELSE IF aslist
         THEN RegOut("ok", [reg EXCEPT ![key].items = Append(@, value)])
         ELSE RegOut("Undefined", reg)

ProviderRegister(reg, injectable, key, iface, force, aslist) ==
    RegistryRegister(reg, EffectiveKey(key, iface, injectable), injectable, aslist, force)

(***************************************************************************)
(* Injector                                                                *)
(***************************************************************************)
Range(f) == { f[i] : i \in DOMAIN f }

\* The registry behind the i-th provider of context c's injector.
ProviderRegistry(c, ref) ==
    IF ref = LocalRef THEN local[c]
    ELSE IF ref \in DOMAIN providers THEN providers[ref] ELSE EmptyRegistry

\* First provider, in list order, whose registry contains the key.
InjectorLookup(c, key) ==
    LET hits == { i \in 1..Len(plist[c]) :
                    RegistryContains(ProviderRegistry(c, plist[c][i]), key) }
    IN  IF hits = {} THEN NoEntry
        ELSE LET first == CHOOSE i \in hits : \A j \in hits : i <= j
             IN  ProviderRegistry(c, plist[c][first])[key]

Res(status, val, fields, h, ch) ==
    [status |-> status, val |-> val, fields |-> fields, heap |-> h, cache |-> ch]

\* Parameters not covered by an explicit positional or keyword value.
Remaining(sig, args, kwargs) ==
    { i \in (Len(args) + 1)..Len(sig) : sig[i].name \notin DOMAIN kwargs }

\* The call binds: no more positional values than parameters, keyword names
\* that are parameters not already bound positionally.
Binds(sig, args, kwargs) ==
    /\ Len(args) <= Len(sig)
    /\ \A n \in DOMAIN kwargs :
         \E i \in (Len(args) + 1)..Len(sig) : sig[i].name = n

\* F applied to the value of v, v being computed once.
With(v, F(_)) == CHOOSE out \in { F(x) : x \in {v} } : TRUE

RECURSIVE InjectorGet(_, _, _, _, _, _, _)
RECURSIVE InjectorResolve(_, _, _, _, _, _, _)
RECURSIVE ResolveDeps(_, _, _, _, _, _, _, _)
RECURSIVE ConstructorBody(_, _, _, _, _, _)

\* Resolve parameters i.. of sig in declaration order; acc holds the values
\* of the parameters before i.
ResolveDeps(c, sig, i, acc, kwargs, h, ch, depth) ==
    IF i > Len(sig) THEN Res("ok", NoVal, acc, h, ch)
    ELSE IF sig[i].name \in DOMAIN kwargs
    THEN ResolveDeps(c, sig, i + 1, Append(acc, kwargs[sig[i].name]), kwargs, h, ch, depth)
    ELSE With(InjectorGet(c, GenerateIfaceKey(sig[i].iface), << >>, << >>, h, ch, depth + 1),
              LAMBDA r :
                 IF r.status = "ok"
                 THEN ResolveDeps(c, sig, i + 1, Append(acc, r.val), kwargs,
                                  r.heap, r.cache, depth)
                 ELSE IF r.status \in {"Undefined", "RecursionError"}
                 THEN r
                 ELSE Res("DependencyInjectionError", NoVal, << >>, r.heap, r.cache))

\* a_factory written to ask the context for the interface it is itself
\* registered under.
ConstructorBody_AsksItself(c, ctor, vals, h, ch, depth) ==
    IF ctor = TAFactory
    THEN With(InjectorGet(c, GenerateIfaceKey(TIClass), << >>, << >>, h, ch, depth + 1),
              LAMBDA g :
                 IF g.status = "ok"
                 THEN Res("ok", NoVal, << IntVal(1), g.val >>, g.heap, g.cache)
                 ELSE IF g.status = "RecursionError" THEN g
                 ELSE Res("Undefined", NoVal, << >>, g.heap, g.cache))
    ELSE IF ctor = TCtxFactory THEN Res("ok", NoVal, << >>, h, ch)
    ELSE Res("ok", NoVal, vals, h, ch)

\* The constructor runs with the values vals of its dependencies and yields
\* the attributes of the object. A class keeps its arguments; a_factory
\* returns _ClassA(1, context.get(_DepsA)), the a_factory with a declared
\* Context parameter returns _ClassA(). What a failing get inside a
\* constructor surfaces as is not fixed.
ConstructorBody(c, ctor, vals, h, ch, depth) ==
    IF ctor = TAFactory
    THEN With(InjectorGet(c, GenerateIfaceKey(TDepsA), << >>, << >>, h, ch, depth + 1),
              LAMBDA g :
                 IF g.status = "ok"
                 THEN Res("ok", NoVal, << IntVal(1), g.val >>, g.heap, g.cache)
                 ELSE Res("Undefined", NoVal, << >>, g.heap, g.cache))
    ELSE IF ctor = TCtxFactory THEN Res("ok", NoVal, << >>, h, ch)
    ELSE Res("ok", NoVal, vals, h, ch)

\* The object a constructor call made is added to the heap, and to the
\* cache when the factory caches.
Construct(c, injectable, vals, b) ==
    LET session == IF SessionParam(Sig(injectable.type)) THEN << CtxRef(c) >> ELSE << >>
        h2 == Append(b.heap, [cls |-> ResultClass(injectable.type),
                              fields |-> b.fields,
                              call |-> session \o vals])
        v == ObjRef(Len(h2))
    IN  Res("ok", v, << >>, h2,
            IF injectable.cache THEN (injectable.fid :> v) @@ b.cache ELSE b.cache)

\* Realize one injectable.
InjectorResolve(c, injectable, args, kwargs, h, ch, depth) ==
    IF injectable.kind = "Instance" THEN Res("ok", injectable.val, << >>, h, ch)
    ELSE IF injectable.fid \in DOMAIN ch THEN Res("ok", ch[injectable.fid], << >>, h, ch)
    ELSE LET sig == Dependencies(Sig(injectable.type))
         IN  IF ~Binds(sig, args, kwargs) THEN Res("Undefined", NoVal, << >>, h, ch)
             ELSE IF \E i \in Remaining(sig, args, kwargs) : sig[i].iface = NoIface
             THEN Res("BadSignature", NoVal, << >>, h, ch)
             ELSE With(ResolveDeps(c, sig, Len(args) + 1, args, kwargs, h, ch, depth),
                       LAMBDA r :
                          IF r.status # "ok" THEN r
                          ELSE With(ConstructorBody(c, injectable.type, r.fields,
                                                    r.heap, r.cache, depth),
                                    LAMBDA b :
                                       IF b.status # "ok" THEN b
                                       ELSE Construct(c, injectable, r.fields, b)))

InjectorGet(c, key, args, kwargs, h, ch, depth) ==
    IF depth > MaxDepth THEN Res("RecursionError", NoVal, << >>, h, ch)
    ELSE With(InjectorLookup(c, key),
              LAMBDA e :
                 IF e.mode = "none" THEN Res("InjectionError", NoVal, << >>, h, ch)
                 ELSE IF e.mode = "list" THEN Res("Undefined", NoVal, << >>, h, ch)
                 ELSE InjectorResolve(c, e.items[1], args, kwargs, h, ch, depth))

RECURSIVE RealizeAll(_, _, _, _, _, _, _, _)
\* Realize items i.. of a list-mode entry in insertion order; acc holds the
\* values realized so far.
RealizeAll(c, items, i, acc, args, kwargs, h, ch) ==
    IF i > Len(items) THEN Res("ok", NoVal, acc, h, ch)
    ELSE With(InjectorResolve(c, items[i], args, kwargs, h, ch, 0),
              LAMBDA r :
                 IF r.status = "ok"
                 THEN RealizeAll(c, items, i + 1, Append(acc, r.val), args, kwargs,
                                 r.heap, r.cache)
                 ELSE r)

InjectorGetList(c, key, args, kwargs, h, ch) ==
    With(InjectorLookup(c, key),
         LAMBDA e :
            IF e.mode = "none" THEN Res("InjectionError", NoVal, << >>, h, ch)
            ELSE IF e.mode = "single" THEN Res("Undefined", NoVal, << >>, h, ch)
            ELSE RealizeAll(c, e.items, 1, << >>, args, kwargs, h, ch))

(***************************************************************************)
(* Outcome of the last operation                                           *)
(***************************************************************************)
\* op: the operation; c: the context (0 for the App); ref: the provider a
\* registration went to; key: the effective key; inj: the injectable a
\* registration was given; asked: the cache argument of factory();
\* status: "ok" or the error raised; val / vals: the value(s) returned;
\* made: objects constructed by the operation.
Outcome(op, c, ref, key, args, kwargs, inj, aslist, force, status, val, vals, made) ==
    [op |-> op, c |-> c, ref |-> ref, key |-> key, args |-> args, kwargs |-> kwargs,
     inj |-> inj, aslist |-> aslist, force |-> force, asked |-> FALSE,
     status |-> status, val |-> val, vals |-> vals, made |-> made]

NoInj == Instance(NoVal, NoIface)

CallOutcome(op, c, key, args, kwargs, status, val, vals, made) ==
    Outcome(op, c, "", key, args, kwargs, NoInj, FALSE, FALSE, status, val, vals, made)

RegOutcome(op, c, ref, key, inj, asked, aslist, force, status) ==
    [Outcome(op, c, ref, key, << >>, << >>, inj, aslist, force, status, NoVal, << >>, 0)
        EXCEPT !.asked = asked]

(***************************************************************************)
(* App                                                                     *)
(***************************************************************************)
NoScope == "None"       \* scope=None

\* Objects the callers build and hand to instance(): a, b.
Prebuilt == { ExtRef(1), ExtRef(2) }
PrebuiltClass(item) == TDepsA
Scopes == {ROOT, "test"}
NamedScopes == Scopes \ {ROOT}

\* App._get_scope_provider making a new Provider on every call.
GetScopeProvider_Fresh(provs, scope) == (scope :> EmptyRegistry) @@ provs

\* App._get_scope_provider: the provider of a scope, created on first use.
GetScopeProvider(provs, scope) ==
    IF scope \in DOMAIN provs THEN provs ELSE (scope :> EmptyRegistry) @@ provs

\* App.register: scope or ROOT.
AppScope(scope) == IF scope = NoScope THEN ROOT ELSE scope

\* App.register with the aslist flag not handed on.
AppProviderRegister_DropAslist(reg, injectable, aslist, force, key, iface) ==
    ProviderRegister(reg, injectable, key, iface, force, FALSE)

\* App.register with the force flag not handed on.
AppProviderRegister_DropForce(reg, injectable, aslist, force, key, iface) ==
    ProviderRegister(reg, injectable, key, iface, FALSE, aslist)

\* App.register: the call of provider.register.
AppProviderRegister(reg, injectable, aslist, force, key, iface) ==
    ProviderRegister(reg, injectable, key, iface, force, aslist)

AppRegister(op, injectable, asked, aslist, force, key, iface, scope) ==
    LET provs == GetScopeProvider(providers, AppScope(scope))
        out == AppProviderRegister(provs[AppScope(scope)], injectable, aslist, force, key, iface)
    IN  /\ nreg < MaxReg
        /\ out.status # "Undefined"
        /\ providers' = [provs EXCEPT ![AppScope(scope)] = out.reg]
        /\ nreg' = IF out.status = "ok" THEN nreg + 1 ELSE nreg
        /\ last' = RegOutcome(op, 0, AppScope(scope), EffectiveKey(key, iface, injectable),
                              injectable, asked, aslist, force, out.status)
        /\ UNCHANGED << ctxState, local, plist, ctxScopes, cache, heap, setOrder >>

\* App.factory making Factories that all have one identity.
AppFactoryInjectable_OneIdentity(item, cache_, fid) == InjectableFactory(item, cache_, 1)

\* App.factory with the cache flag not handed on to injectable_factory.
AppFactoryInjectable_CacheOff(item, cache_, fid) == InjectableFactory(item, FALSE, fid)

\* App.factory: item is a callable, wrapped by injectable_factory.
AppFactoryInjectable(item, cache_, fid) == InjectableFactory(item, cache_, fid)

AppFactory(item, aslist, force, cache_, key, iface, scope) ==
    AppRegister("App.factory", AppFactoryInjectable(item, cache_, nreg + 1), cache_,
                aslist, force, key, iface, scope)

\* App.instance that registers a factory of the object's class.
AppInstance_AsFactory(item, aslist, force, key, iface, scope) ==
    AppRegister("App.instance", InjectableFactory(PrebuiltClass(item), FALSE, nreg + 1),
                FALSE, aslist, force, key, iface, scope)

\* App.instance: item is an object the caller has built, wrapped by Instance.
AppInstance(item, aslist, force, key, iface, scope) ==
    AppRegister("App.instance", Instance(item, PrebuiltClass(item)), FALSE,
                aslist, force, key, iface, scope)

(***************************************************************************)
(* Context                                                                 *)
(***************************************************************************)
\* Context.__init__ without the registration of the context itself.
ContextInitLocal_NoSelf(c) == EmptyRegistry

\* Context.__init__: the local provider holds the context itself under the
\* key of its class.
ContextInitLocal(c) ==
    ProviderRegister(EmptyRegistry, Instance(CtxRef(c), TContext),
                     NoKey, TContext, FALSE, FALSE).reg

\* Context.mount with the local provider put after the providers it is given.
ContextMountList_LocalLast(provs) == provs \o << LocalRef >>

\* Context.mount with the providers it is given left out.
ContextMountList_LocalOnly(provs) == << LocalRef >>

\* Context.mount: the injector's provider list.
ContextMountList(provs) == << LocalRef >> \o provs

\* Context.mount
ContextMount(c, provs) ==
    /\ plist' = [plist EXCEPT ![c] = ContextMountList(provs)]
    /\ cache' = [cache EXCEPT ![c] = << >>]
    /\ ctxState' = [ctxState EXCEPT ![c] = "mounted"]

\* Context(): construction alone, as in the context fixture.
NewContext(c) ==
    /\ NextCtx(c)
    /\ ctxState' = [ctxState EXCEPT ![c] = "new"]
    /\ local' = [local EXCEPT ![c] = ContextInitLocal(c)]
    /\ last' = CallOutcome("Context", c, "", << >>, << >>, "ok", CtxRef(c), << >>, 0)
    /\ UNCHANGED << providers, plist, ctxScopes, cache, heap, nreg, setOrder >>

\* context.mount() without providers.
Mount(c) ==
    /\ ctxState[c] # "none"
    /\ ContextMount(c, << >>)
    /\ ctxScopes' = [ctxScopes EXCEPT ![c] = {}]
    /\ last' = CallOutcome("mount", c, "", << >>, << >>, "ok", NoVal, << >>, 0)
    /\ UNCHANGED << providers, local, heap, nreg, setOrder >>

\* App.create_context taking the provider of every scope of the App.
CreateContextScopes_All(scopes) == {ROOT, "test"}

\* App.create_context: set([ROOT] + list(scopes)).
CreateContextScopes(scopes) == {ROOT} \cup scopes

RECURSIVE Perms(_)
Perms(S) ==
    IF S = {} THEN { << >> }
    ELSE UNION { { << x >> \o p : p \in Perms(S \ {x}) } : x \in S }

\* Iteration of a set of scope names: in the order of this process, which
\* is fixed by the first iteration of a set of several names.
IterateSet(S, order) == SelectSeq(order, LAMBDA s : s \in S)

RECURSIVE GetScopeProviders(_, _)
GetScopeProviders(provs, S) ==
    IF S = {} THEN provs
    ELSE LET s == CHOOSE x \in S : TRUE
         IN  GetScopeProviders(GetScopeProvider(provs, s), S \ {s})

AppCreateContext(c, scopes) ==
    /\ NextCtx(c)
    /\ setOrder' \in IF setOrder = << >> /\ Cardinality(CreateContextScopes(scopes)) > 1
                     THEN Perms(Scopes) ELSE {setOrder}
    /\ providers' = GetScopeProviders(providers, CreateContextScopes(scopes))
    /\ local' = [local EXCEPT ![c] = ContextInitLocal(c)]
    /\ ContextMount(c, IF Cardinality(CreateContextScopes(scopes)) > 1
                       THEN IterateSet(CreateContextScopes(scopes), setOrder')
                       ELSE << ROOT >>)
    /\ ctxScopes' = [ctxScopes EXCEPT ![c] = scopes]
    /\ last' = CallOutcome("App.create_context", c, "", << >>, << >>, "ok", CtxRef(c), << >>, 0)
    /\ UNCHANGED << heap, nreg >>

\* Context.register that does not reach the local provider.
ContextProviderRegister_Lost(reg, injectable, aslist, force, name, iface) ==
    RegOut("ok", reg)

\* Context.register: the call of provider.register on the local provider.
ContextProviderRegister(reg, injectable, aslist, force, name, iface) ==
    ProviderRegister(reg, injectable, name, iface, force, aslist)

\* Context.register that turns a mounted context's registrations away.
ContextRegister_MountedRejects(op, c, injectable, asked, aslist, force, name, iface) ==
    LET out == IF ctxState[c] = "mounted"
               THEN RegOut("ContextMountedError", local[c])
               ELSE ContextProviderRegister(local[c], injectable, aslist, force, name, iface)
    IN  /\ ctxState[c] # "none"
        /\ nreg < MaxReg
        /\ out.status # "Undefined"
        /\ local' = [local EXCEPT ![c] = out.reg]
        /\ nreg' = IF out.status = "ok" THEN nreg + 1 ELSE nreg
        /\ last' = RegOutcome(op, c, LocalRef, EffectiveKey(name, iface, injectable),
                              injectable, asked, aslist, force, out.status)
        /\ UNCHANGED << providers, ctxState, plist, ctxScopes, cache, heap, setOrder >>

\* Context.register
ContextRegister(op, c, injectable, asked, aslist, force, name, iface) ==
    LET out == ContextProviderRegister(local[c], injectable, aslist, force, name, iface)
    IN  /\ ctxState[c] # "none"
        /\ nreg < MaxReg
        /\ out.status # "Undefined"
        /\ local' = [local EXCEPT ![c] = out.reg]
        /\ nreg' = IF out.status = "ok" THEN nreg + 1 ELSE nreg
        /\ last' = RegOutcome(op, c, LocalRef, EffectiveKey(name, iface, injectable),
                              injectable, asked, aslist, force, out.status)
        /\ UNCHANGED << providers, ctxState, plist, ctxScopes, cache, heap, setOrder >>

\* Context.factory
ContextFactoryInjectable(item, cache_, fid) == InjectableFactory(item, cache_, fid)

ContextFactory(c, item, aslist, force, cache_, name, iface) ==
    ContextRegister("Context.factory", c, ContextFactoryInjectable(item, cache_, nreg + 1),
                    cache_, aslist, force, name, iface)

\* Context.instance
ContextInstance(c, item, aslist, force, name, iface) ==
    ContextRegister("Context.instance", c, Instance(item, PrebuiltClass(item)), FALSE,
                    aslist, force, name, iface)

\* Injector.get / get_list: explicit key, else the key derived from iface.
LookupKey(iface, name) == IF name # NoKey THEN name ELSE GenerateIfaceKey(iface)

\* A call on a context that is not mounted, with the check of _mounted left
\* out: the context has no injector attribute yet.
NotMounted_NoCheck(op, c, key, args, kwargs) ==
    /\ last' = CallOutcome(op, c, key, args, kwargs, "AttributeError", NoVal, << >>, 0)
    /\ UNCHANGED << heap, cache >>

\* A call on a context that is not mounted.
NotMounted(op, c, key, args, kwargs) ==
    /\ last' = CallOutcome(op, c, key, args, kwargs, "ContextNotMountedError", NoVal, << >>, 0)
    /\ UNCHANGED << heap, cache >>

\* The effect of an injector call with result r.
Returned(op, c, key, args, kwargs, result) ==
    \E r \in {result} :
        /\ r.status # "Undefined"
        /\ Len(r.heap) <= MaxObj
        /\ heap' = r.heap
        /\ cache' = [cache EXCEPT ![c] = r.cache]
        /\ last' = CallOutcome(op, c, key, args, kwargs, r.status, r.val,
                               IF r.status = "ok" THEN r.fields ELSE << >>,
                               Len(r.heap) - Len(heap))

\* Context.get on an injector that enters a factory in its cache before it
\* realizes it.
ContextInjectorGet_EarlyCache(c, iface, name, args, kwargs) ==
    InjectorGet(c, LookupKey(iface, name), args, kwargs, heap,
                IF InjectorLookup(c, LookupKey(iface, name)).mode = "single"
                THEN (InjectorLookup(c, LookupKey(iface, name)).items[1].fid :> NoVal)
                         @@ cache[c]
                ELSE cache[c],
                0)

\* Context.get on an injector whose cache is the one of the App's first
\* context.
ContextInjectorGet_SharedCache(c, iface, name, args, kwargs) ==
    InjectorGet(c, LookupKey(iface, name), args, kwargs, heap, cache[1], 0)

\* Context.get on an injector made anew for the call.
ContextInjectorGet_NewInjector(c, iface, name, args, kwargs) ==
    InjectorGet(c, LookupKey(iface, name), args, kwargs, heap, << >>, 0)

\* Context.get with the keyword values not handed on.
ContextInjectorGet_DropKwargs(c, iface, name, args, kwargs) ==
    InjectorGet(c, LookupKey(iface, name), args, << >>, heap, cache[c], 0)

\* Context.get with the positional values not handed on.
ContextInjectorGet_DropArgs(c, iface, name, args, kwargs) ==
    InjectorGet(c, LookupKey(iface, name), << >>, kwargs, heap, cache[c], 0)

\* Context.get: the call of injector.get.
ContextInjectorGet(c, iface, name, args, kwargs) ==
    InjectorGet(c, LookupKey(iface, name), args, kwargs, heap, cache[c], 0)

ContextGet(c, iface, name, args, kwargs) ==
    /\ ctxState[c] # "none"
    /\ IF ctxState[c] # "mounted"
       THEN NotMounted("get", c, LookupKey(iface, name), args, kwargs)
       ELSE Returned("get", c, LookupKey(iface, name), args, kwargs,
                     ContextInjectorGet(c, iface, name, args, kwargs))
    /\ UNCHANGED << providers, ctxState, local, plist, ctxScopes, nreg, setOrder >>

\* Context.get(iface, <kw>=k): the explicit key given by keyword kw.
\* Context.get declares the keyword-only parameters name, args and kwargs;
\* any other keyword is a TypeError raised by the call itself.
ContextGetKeyword(c, iface, kw, k, args, kwargs) ==
    IF kw = "name"
    THEN ContextGet(c, iface, k, args, kwargs)
    ELSE /\ ctxState[c] # "none"
         /\ last' = CallOutcome("get", c, LookupKey(iface, k), args, kwargs,
                                "TypeError", NoVal, << >>, 0)
         /\ UNCHANGED << providers, ctxState, local, plist, ctxScopes, cache, heap,
                         nreg, setOrder >>

\* Context.get_list: the call of injector.get_list.
ContextInjectorGetList(c, iface, name, args, kwargs) ==
    InjectorGetList(c, LookupKey(iface, name), args, kwargs, heap, cache[c])

ContextGetList(c, iface, name, args, kwargs) ==
    /\ ctxState[c] # "none"
    /\ IF ctxState[c] # "mounted"
       THEN NotMounted("get_list", c, LookupKey(iface, name), args, kwargs)
       ELSE Returned("get_list", c, LookupKey(iface, name), args, kwargs,
                     ContextInjectorGetList(c, iface, name, args, kwargs))
    /\ UNCHANGED << providers, ctxState, local, plist, ctxScopes, nreg, setOrder >>

\* Context.resolve with the transient Factory made cache-enabled.
ContextInjectorResolve_Cached(c, factory, args, kwargs) ==
    InjectorResolve(c, InjectableFactory(factory, TRUE, 0), args, kwargs, heap, cache[c], 0)

\* Context.resolve: injector.resolve of a transient, uncached Factory.
ContextInjectorResolve(c, factory, args, kwargs) ==
    InjectorResolve(c, InjectableFactory(factory, FALSE, 0), args, kwargs, heap, cache[c], 0)

ContextResolve(c, factory, args, kwargs) ==
    /\ ctxState[c] # "none"
    /\ IF ctxState[c] # "mounted"
       THEN NotMounted("resolve", c, GenerateIfaceKey(factory), args, kwargs)
       ELSE Returned("resolve", c, GenerateIfaceKey(factory), args, kwargs,
                     ContextInjectorResolve(c, factory, args, kwargs))
    /\ UNCHANGED << providers, ctxState, local, plist, ctxScopes, nreg, setOrder >>

\* Provider.describe_injectables: for every registered key, the key and the
\* injectable, or the list of injectables, registered under it.
DescribeInjectables(reg) ==
    [ k \in DOMAIN reg |-> [key |-> k, mode |-> reg[k].mode, items |-> reg[k].items] ]

\* Context.inspect walking the providers in the order of the injector's list.
InspectOrder_Forward(provs) == provs

\* Context.inspect: reversed(providers).
InspectOrder(provs) == [ i \in 1..Len(provs) |-> provs[Len(provs) + 1 - i] ]

RECURSIVE InspectWalk(_, _, _, _)
\* Context.inspect: the loop over the providers; unique_injectables[key] is
\* overwritten by every later provider that describes the key.
InspectWalk(c, order, i, unique_injectables) ==
    IF i > Len(order) THEN unique_injectables
    ELSE InspectWalk(c, order, i + 1,
                     DescribeInjectables(ProviderRegistry(c, order[i]))
                         @@ unique_injectables)

\* InspectContextResult._item_to_dict: str(item) is the wrapped object or
\* constructor; deps are the dependencies with a declared interface.
ItemToDict(key, item) ==
    [key |-> key,
     item |-> IF item.kind = "Instance" THEN item.val ELSE item.type,
     deps |-> IF item.kind = "Instance" THEN << >>
              ELSE [ j \in 1..Len(SelectSeq(Dependencies(Sig(item.type)),
                                            LAMBDA d : d.iface # NoIface)) |->
                       [param |-> SelectSeq(Dependencies(Sig(item.type)),
                                            LAMBDA d : d.iface # NoIface)[j].name,
                        key |-> GenerateIfaceKey(
                                   SelectSeq(Dependencies(Sig(item.type)),
                                             LAMBDA d : d.iface # NoIface)[j].iface)] ]]

\* InspectContextResult.to_dict
ToDict(injectables) ==
    [ k \in DOMAIN injectables |->
        IF injectables[k].mode = "list"
        THEN [ j \in 1..Len(injectables[k].items) |-> ItemToDict(k, injectables[k].items[j]) ]
        ELSE ItemToDict(k, injectables[k].items[1]) ]

\* Context.inspect. It reads self.injector, which an unmounted context does
\* not have.
ContextInspect(c) ==
    /\ ctxState[c] # "none"
    /\ last' = IF ctxState[c] # "mounted"
               THEN CallOutcome("inspect", c, "", << >>, << >>, "AttributeError",
                                NoVal, << >>, 0)
               ELSE CallOutcome("inspect", c, "", << >>, << >>, "ok",
                                [t |-> "dict", n |-> 0,
                                 injectables |-> InspectWalk(c, InspectOrder(plist[c]), 1, << >>)],
                                << >>, 0)
    /\ UNCHANGED << providers, ctxState, local, plist, ctxScopes, cache, heap, nreg,
                    setOrder >>

(***************************************************************************)
(* Specification                                                           *)
(***************************************************************************)
Init ==
    /\ providers = << >>
    /\ ctxState = [c \in Ctxs |-> "none"]
    /\ local = [c \in Ctxs |-> EmptyRegistry]
    /\ plist = [c \in Ctxs |-> << >>]
    /\ ctxScopes = [c \in Ctxs |-> {}]
    /\ cache = [c \in Ctxs |-> << >>]
    /\ heap = << >>
    /\ nreg = 0
    /\ setOrder = << >>
    /\ last = CallOutcome("App", 0, "", << >>, << >>, "ok", NoVal, << >>, 0)

ArgLists == { << >>, << IntVal(1) >> }

\* The registration phase of the intended usage: the App's providers are
\* filled before any context is created over them.
Registering == \A c \in Ctxs : ctxState[c] = "none"

(***************************************************************************)
(* Registration on the App with and without force, then resolution from    *)
(* contexts created over the scopes.                                       *)
(***************************************************************************)
\* Scenarios over several scopes or lists leave one registration unused.
FewRegistered == nreg < MaxReg - 1

NextForce ==
    \/ \E force \in BOOLEAN, scope \in {NoScope, "test"} :
          FewRegistered /\ AppFactory(TDepsA, FALSE, force, TRUE, NoKey, TIClass, scope)
    \/ \E item \in Prebuilt, force \in BOOLEAN, scope \in {NoScope, "test"} :
          FewRegistered /\ AppInstance(item, FALSE, force, NoKey, TIClass, scope)
    \/ \E c \in Ctxs, scopes \in SUBSET NamedScopes : AppCreateContext(c, scopes)
    \/ \E c \in Ctxs : ContextGet(c, TIClass, NoKey, << >>, << >>)

SpecForce == Init /\ [][NextForce]_vars

\* The injectable that get of key would realize on context c.
Winner(c, key) == InjectorLookup(c, key).items[1]

\* val is a realization of injectable on context c.
RealizationOf(c, injectable, val) ==
    IF injectable.kind = "Instance" THEN val = injectable.val
    ELSE /\ val.t = "obj"
         /\ val.n \in 1..Len(heap)
         /\ heap[val.n].cls = ResultClass(injectable.type)
         /\ injectable.cache => (injectable.fid \in DOMAIN cache[c] /\ cache[c][injectable.fid] = val)

\* val is a realization of injectable on context c after the step.
RealizedNext(c, injectable, val) ==
    IF injectable.kind = "Instance" THEN val = injectable.val
    ELSE /\ val.t = "obj"
         /\ val.n \in 1..Len(heap')
         /\ heap'[val.n].cls = ResultClass(injectable.type)
         /\ injectable.cache =>
               (injectable.fid \in DOMAIN cache'[c] /\ cache'[c][injectable.fid] = val)

AppRegOps == {"App.factory", "App.instance"}

\* The registry of provider ref held an entry for key before the step.
HeldSingle(ref, key) ==
    /\ ref \in DOMAIN providers
    /\ RegistryContains(providers[ref], key)
    /\ providers[ref][key].mode = "single"

C1Step ==
    /\ (last'.op \in AppRegOps /\ ~last'.aslist /\ HeldSingle(last'.ref, last'.key)) =>
         IF last'.force
         THEN /\ last'.status = "ok"
              /\ providers'[last'.ref][last'.key] = [mode |-> "single", items |-> << last'.inj >>]
         ELSE /\ last'.status = "ItemExists"
              /\ providers' = providers
    /\ (last'.op = "get" /\ last'.status = "ok") =>
         RealizedNext(last'.c, Winner(last'.c, last'.key), last'.val)

\* C1: on a single-mode key of any scope, a second registration without
\* force fails with ItemExists and leaves the registered injectable in place;
\* with force it succeeds and replaces it, and a get that succeeds returns a
\* realization of the injectable now registered.
C1_ForceReplaces == [][C1Step]_vars

\* Two factories were registered, one replaced the other, and a get
\* returned the realization of the second.
C1_Witness ==
    /\ last.op = "get" /\ last.status = "ok"
    /\ nreg = 2 /\ heap # << >>
    /\ \A ref \in DOMAIN providers : \A k \in DOMAIN providers[ref] :
         providers[ref][k].items[1] = InjectableFactory(TDepsA, TRUE, 2)
    /\ 2 \in DOMAIN cache[last.c] /\ cache[last.c][2] = last.val

(***************************************************************************)
(* Factories registered with and without cache, resolved repeatedly.       *)
(***************************************************************************)
NextCache ==
    \/ \E cache_ \in BOOLEAN, iface \in {NoIface, TIClass} :
          AppFactory(TDepsA, FALSE, FALSE, cache_, NoKey, iface, NoScope)
    \/ \E c \in Ctxs : AppCreateContext(c, {})
    \/ \E c \in Ctxs : Mount(c)
    \/ \E c \in Ctxs, iface \in {TDepsA, TIClass} : ContextGet(c, iface, NoKey, << >>, << >>)

SpecCache == Init /\ [][NextCache]_vars

FactoryOps == {"App.factory"}

\* Every injectable registered in a provider that context c searches.
Registered(c) ==
    UNION { UNION { { ProviderRegistry(c, plist[c][i])[k].items[j] :
                        j \in 1..Len(ProviderRegistry(c, plist[c][i])[k].items) } :
                    k \in DOMAIN ProviderRegistry(c, plist[c][i]) } :
            i \in 1..Len(plist[c]) }

\* The value is a reference to an object constructed by this step.
Fresh(val) == val.t = "obj" /\ val.n > Len(heap) /\ val.n <= Len(heap')

C2Step ==
    /\ (last'.op \in FactoryOps /\ last'.status = "ok") =>
         (last'.inj.kind = "Factory" /\ last'.inj.cache = last'.asked)
    /\ (last'.op = "get" /\ last'.status = "ok"
           /\ Winner(last'.c, last'.key).kind = "Factory") =>
         LET c == last'.c
             w == Winner(c, last'.key)
         IN  IF w.cache
             THEN IF w.fid \in DOMAIN cache[c]
                  THEN last'.val = cache[c][w.fid] /\ last'.made = 0 /\ heap' = heap
                  ELSE Fresh(last'.val) /\ cache'[c] = (w.fid :> last'.val) @@ cache[c]
             ELSE Fresh(last'.val) /\ last'.made >= 1 /\ cache'[c] = cache[c]
    /\ \A c \in Ctxs :
         /\ ~(last'.op = "mount" /\ last'.c = c) =>
              \A fid \in DOMAIN cache[c] :
                  fid \in DOMAIN cache'[c] /\ cache'[c][fid] = cache[c][fid]
         /\ \A w \in Registered(c)' : ~w.cache => w.fid \notin DOMAIN cache'[c]

\* C2: within one injector a factory registered with cache=True is
\* constructed by the first get only and every later get returns that same
\* object; a factory registered with cache=False is constructed anew by
\* every get and is never entered in the cache.
C2_CacheOncePerInjector == [][C2Step]_vars

\* A get of a cache-enabled factory that was answered from the cache.
C2_Witness ==
    /\ last.op = "get" /\ last.status = "ok" /\ last.made = 0
    /\ Winner(last.c, last.key).kind = "Factory"
    /\ Winner(last.c, last.key).cache
    /\ last.val = ObjRef(1)

(***************************************************************************)
(* Factories with dependencies, some of them missing.                      *)
(***************************************************************************)
NextErrors ==
    \/ \E item \in {TDepsA, TClassA, TClassB} :
          AppFactory(item, FALSE, FALSE, TRUE, NoKey, NoIface, NoScope)
    \/ AppFactory(TClassA, TRUE, FALSE, TRUE, NoKey, TIClass, NoScope)
    \/ \E c \in Ctxs : AppCreateContext(c, {})
    \/ \E c \in Ctxs, iface \in {TDepsA, TClassB} : ContextGet(c, iface, NoKey, << >>, << >>)
    \/ \E c \in Ctxs, args \in ArgLists : ContextGet(c, TClassA, NoKey, args, << >>)
    \/ \E c \in Ctxs : ContextGetList(c, TIClass, NoKey, << >>, << >>)
    \/ \E c \in Ctxs : ContextResolve(c, TClassB, << >>, << >>)

SpecErrors == Init /\ [][NextErrors]_vars

\* Some provider of the context (its own, or that of one of the scopes it
\* was created with) holds the key.
Held(c, key) ==
    \/ RegistryContains(local[c], key)
    \/ \E sc \in {ROOT} \cup ctxScopes[c] :
         sc \in DOMAIN providers /\ RegistryContains(providers[sc], key)

RECURSIVE Resolvable(_, _, _)
\* get of the key, without explicit values, can be answered: the key is
\* held, and its injectable is an Instance, a cached Factory, or a Factory
\* all of whose parameters are typed and resolvable in turn.
Resolvable(c, key, depth) ==
    /\ depth <= MaxDepth
    /\ Held(c, key)
    /\ LET w == Winner(c, key)
       IN  \/ w.kind = "Instance"
           \/ w.fid \in DOMAIN cache[c]
           \/ \A i \in 1..Len(Dependencies(Sig(w.type))) :
                /\ Dependencies(Sig(w.type))[i].iface # NoIface
                /\ Resolvable(c, GenerateIfaceKey(Dependencies(Sig(w.type))[i].iface),
                              depth + 1)

\* The factory has a parameter, not covered by an explicit value, whose
\* declared dependency cannot be resolved.
MissingDep(c, w, args, kwargs) ==
    \E i \in Remaining(Dependencies(Sig(w.type)), args, kwargs) :
        ~Resolvable(c, GenerateIfaceKey(Dependencies(Sig(w.type))[i].iface), 1)

LookupOps == {"get", "get_list"}
InjectorOps == {"get", "get_list", "resolve"}
Taxonomy == {"ok", "InjectionError", "DependencyInjectionError", "BadSignature"}

C3Step ==
    LET c == last'.c
        key == last'.key
    IN  /\ last'.op \in InjectorOps => last'.status \in Taxonomy
        /\ last'.op \in LookupOps => (last'.status = "InjectionError" <=> ~Held(c, key))
        /\ last'.op = "resolve" => last'.status # "InjectionError"
        /\ (last'.op = "get" /\ Held(c, key) /\ Winner(c, key).kind = "Factory"
               /\ Winner(c, key).fid \notin DOMAIN cache[c]
               /\ MissingDep(c, Winner(c, key), last'.args, last'.kwargs)) =>
             last'.status = "DependencyInjectionError"
        /\ (last'.op = "resolve"
               /\ MissingDep(c, InjectableFactory([ns |-> "TestInjection", name |-> key], FALSE, 0),
                             last'.args, last'.kwargs)) =>
             last'.status = "DependencyInjectionError"

\* C3: get and get_list of a key that no provider of the context holds fail
\* with InjectionError, and only then; get of a registered factory, or
\* resolve of a constructor, one of whose dependencies cannot be resolved at
\* some depth fails with DependencyInjectionError; no other error than those
\* of the taxonomy leaves get, get_list or resolve.
C3_ErrorKinds == [][C3Step]_vars

\* get of _ClassB failed on the dependency of its dependency _ClassA.
C3_Witness ==
    /\ last.op = "get" /\ last.key = "_ClassB"
    /\ last.status = "DependencyInjectionError"
    /\ Held(last.c, "_ClassB") /\ Held(last.c, "_ClassA")
    /\ ~Held(last.c, "int")

(***************************************************************************)
(* One key registered in the root scope, in a named scope and on contexts  *)
(* created with and without the named scope.                               *)
(***************************************************************************)
NextScopes ==
    \/ \E scope \in {NoScope, "test"} :
          FewRegistered /\ AppFactory(TDepsA, FALSE, FALSE, TRUE, NoKey, TIClass, scope)
    \/ \E c \in Ctxs, scopes \in SUBSET NamedScopes : AppCreateContext(c, scopes)
    \/ \E c \in Ctxs :
          FewRegistered /\ ContextInstance(c, ExtRef(1), FALSE, FALSE, NoKey, TIClass)
    \/ \E c \in Ctxs :
          FewRegistered /\ ContextFactory(c, TDepsA, FALSE, FALSE, TRUE, NoKey, TIClass)
    \/ \E c \in Ctxs : ContextGet(c, TIClass, NoKey, << >>, << >>)

SpecScopes == Init /\ [][NextScopes]_vars

\* The scope providers of context c that hold the key.
ScopesHolding(c, key) ==
    { sc \in DOMAIN providers :
        sc \in Range(plist[c]) /\ RegistryContains(providers[sc], key) }

\* C4: the local provider is the first of every injector's list, and get of
\* a key registered on the context itself returns the value of the
\* context-local injectable, whatever the scope providers register under
\* that key.
C4_LocalShadowsScopes ==
    /\ \A c \in Ctxs : ctxState[c] = "mounted" => plist[c][1] = LocalRef
    /\ (last.op = "get" /\ RegistryContains(local[last.c], last.key)) =>
         /\ last.status = "ok"
         /\ RealizationOf(last.c, local[last.c][last.key].items[1], last.val)
         /\ \A sc \in ScopesHolding(last.c, last.key) :
              LET other == providers[sc][last.key].items[1]
              IN  other.fid \in DOMAIN cache[last.c] => cache[last.c][other.fid] # last.val

\* A get answered by the local injectable although a scope provider of the
\* context registers the same key.
C4_Witness ==
    /\ last.op = "get" /\ last.status = "ok"
    /\ RegistryContains(local[last.c], last.key)
    /\ ScopesHolding(last.c, last.key) # {}

\* The key is registered under the named scope sc and nowhere else that
\* context c could look.
OnlyInScope(c, key, sc) ==
    /\ sc \in NamedScopes
    /\ sc \in DOMAIN providers /\ RegistryContains(providers[sc], key)
    /\ ~RegistryContains(local[c], key)
    /\ \A other \in DOMAIN providers \ {sc} : ~RegistryContains(providers[other], key)

\* C5: get of a key registered only under a named scope succeeds, with the
\* value of that scope's injectable, on every context created with the
\* scope, and fails with InjectionError on every context created without it.
C5_ScopeSelectsProviders ==
    \A sc \in NamedScopes :
        (last.op = "get" /\ OnlyInScope(last.c, last.key, sc)) =>
            IF sc \in ctxScopes[last.c]
            THEN /\ last.status = "ok"
                 /\ RealizationOf(last.c, providers[sc][last.key].items[1], last.val)
            ELSE last.status = "InjectionError"

\* The first context, created with the scope, has resolved the key; the get
\* on the second, created without it, failed.
C5_Witness ==
    /\ last.op = "get" /\ last.c = 2 /\ last.status = "InjectionError"
    /\ OnlyInScope(2, last.key, "test")
    /\ "test" \in ctxScopes[1] /\ "test" \notin ctxScopes[2]
    /\ 1 \in DOMAIN cache[1]

(***************************************************************************)
(* Several injectables registered as a list under one key.                 *)
(***************************************************************************)
NextList ==
    \/ \E cache_ \in BOOLEAN, iface \in {NoIface, TIClass} :
          FewRegistered /\ AppFactory(TDepsA, TRUE, FALSE, cache_, NoKey, iface, NoScope)
    \/ \E item \in Prebuilt, iface \in {NoIface, TIClass} :
          FewRegistered /\ AppInstance(item, TRUE, FALSE, NoKey, iface, NoScope)
    \/ \E c \in Ctxs : AppCreateContext(c, {})
    \/ \E c \in Ctxs, iface \in {TDepsA, TIClass} :
          ContextGetList(c, iface, NoKey, << >>, << >>)

SpecList == Init /\ [][NextList]_vars

\* The injectables registered at key in provider ref, in order.
ItemsAt(ref, key) ==
    IF ref \in DOMAIN providers /\ RegistryContains(providers[ref], key)
    THEN providers[ref][key].items ELSE << >>

C6Step ==
    /\ (last'.op \in AppRegOps /\ last'.aslist
           /\ (~RegistryContains(GetScopeProvider(providers, last'.ref)[last'.ref], last'.key)
                  \/ providers[last'.ref][last'.key].mode = "list")) =>
         /\ last'.status = "ok"
         /\ providers'[last'.ref][last'.key] =
                [mode |-> "list", items |-> Append(ItemsAt(last'.ref, last'.key), last'.inj)]
    /\ (last'.op = "get_list" /\ InjectorLookup(last'.c, last'.key).mode = "list") =>
         last'.status = "ok"
    /\ (last'.op = "get_list" /\ last'.status = "ok") =>
         LET items == InjectorLookup(last'.c, last'.key).items
         IN  /\ Len(last'.vals) = Len(items)
             /\ \A i \in 1..Len(items) : RealizedNext(last'.c, items[i], last'.vals[i])
             /\ \A i, j \in 1..Len(items) :
                  (i # j /\ last'.vals[i] = last'.vals[j]) =>
                      (items[i] = items[j] \/ items[i].val = items[j].val)

\* C6: every registration with aslist=True appends the injectable to the
\* sequence of its key, and get_list returns exactly one realized value per
\* registered injectable, in registration order.
C6_ListInRegistrationOrder == [][C6Step]_vars

\* get_list returned the realizations of a factory and of an instance
\* registered after it.
C6_Witness ==
    /\ last.op = "get_list" /\ last.status = "ok"
    /\ Len(last.vals) = 2
    /\ InjectorLookup(last.c, last.key).items[1].kind = "Factory"
    /\ InjectorLookup(last.c, last.key).items[2].kind = "Instance"
    /\ last.vals[1] = ObjRef(1) /\ last.vals[2] = InjectorLookup(last.c, last.key).items[2].val

(***************************************************************************)
(* A factory with parameters (v: int, deps_a: _DepsA), resolved with and   *)
(* without explicit positional values.                                     *)
(***************************************************************************)
NextArgs ==
    \/ \E cache_ \in BOOLEAN :
          AppFactory(TDepsA, FALSE, FALSE, cache_, NoKey, NoIface, NoScope)
    \/ AppInstance(ExtRef(1), FALSE, FALSE, NoKey, NoIface, NoScope)
    \/ \E cache_ \in BOOLEAN :
          AppFactory(TClassA, FALSE, FALSE, cache_, NoKey, NoIface, NoScope)
    \/ \E c \in Ctxs : AppCreateContext(c, {})
    \/ \E c \in Ctxs, args \in { << >>, << IntVal(1) >>, << IntVal(2) >> } :
          ContextGet(c, TClassA, NoKey, args, << >>)
    \/ \E c \in Ctxs : ContextGet(c, TDepsA, NoKey, << >>, << >>)

SpecArgs == Init /\ [][NextArgs]_vars

\* What a separate get of the key, without explicit values, returns on c.
SeparateGet(c, key) == InjectorGet(c, key, << >>, << >>, heap, cache[c], 0)

\* The same request made right after the step.
SeparateGetNext(c, key) == InjectorGet(c, key, << >>, << >>, heap', cache'[c], 0)

\* The last operation was get(_ClassA, args=[1]) and it returned an object.
GotClassAWithOne ==
    /\ last.op = "get" /\ last.status = "ok"
    /\ last.key = "_ClassA" /\ last.args = << IntVal(1) >>
    /\ Winner(last.c, last.key).type = TClassA

\* C7 as stated: the object that get(_ClassA, args=[1]) returns has v == 1
\* and its deps_a is the object a separate get(_DepsA) returns.
C7_Original ==
    GotClassAWithOne =>
        /\ heap[last.val.n].fields[1] = IntVal(1)
        /\ ObjRef(last.val.n) = last.val
        /\ heap[last.val.n].fields[2] = SeparateGet(last.c, "_DepsA").val

\* _DepsA is registered as an Instance or as a cache-enabled Factory.
SharedDep(c, key) ==
    /\ Held(c, key)
    /\ Winner(c, key).kind = "Instance" \/ Winner(c, key).cache

C7Step ==
    \A c \in Ctxs :
        (/\ last'.op = "get" /\ last'.c = c /\ last'.key = "_ClassA"
         /\ Len(last'.args) = 1
         /\ Held(c, "_ClassA")
         /\ Winner(c, "_ClassA").type = TClassA
         /\ Winner(c, "_ClassA").fid \notin DOMAIN cache[c]
         /\ SharedDep(c, "_DepsA")) =>
            /\ last'.status = "ok"
            /\ Fresh(last'.val)
            /\ heap'[last'.val.n].cls = TClassA
            /\ heap'[last'.val.n].fields[1] = last'.args[1]
            /\ SeparateGetNext(c, "_DepsA").status = "ok"
            /\ heap'[last'.val.n].fields[2] = SeparateGetNext(c, "_DepsA").val

\* C7 (amended): when the factory of _ClassA is not yet cached on the
\* context and _DepsA is registered as an Instance or a cache-enabled
\* Factory, get(_ClassA, args=[n]) constructs an object whose v is n and
\* whose deps_a is the object a separate get(_DepsA) returns.
C7_ExplicitThenResolved == [][C7Step]_vars

\* get(_ClassA, args=[1]) built _DepsA and then _ClassA around it.
C7_Witness ==
    /\ GotClassAWithOne /\ last.made = 2
    /\ heap[last.val.n].fields = << IntVal(1), ObjRef(1) >>
    /\ SeparateGet(last.c, "_DepsA").val = ObjRef(1)

(***************************************************************************)
(* A constructor (x, deps_a: _DepsA) whose first parameter has no declared *)
(* type.                                                                   *)
(***************************************************************************)
NoKwargs == << >>
KwX == "x" :> IntVal(2)
UntypedArgs == { << >>, << IntVal(1) >> }

\* deps_a is given or registered: the outcome does not depend on the order
\* in which realize looks at the parameters.
DepsAReady(c, args) == Len(args) > 0 \/ Held(c, "_DepsA")

NextSignature ==
    \/ Registering /\ AppFactory(TUntyped, FALSE, FALSE, TRUE, NoKey, NoIface, NoScope)
    \/ Registering /\ AppFactory(TAFactory, FALSE, FALSE, TRUE, NoKey, TIClass, NoScope)
    \/ Registering /\ AppInstance(ExtRef(1), FALSE, FALSE, NoKey, NoIface, NoScope)
    \/ \E c \in Ctxs : AppCreateContext(c, {})
    \/ \E c \in Ctxs, args \in UntypedArgs, kwargs \in {NoKwargs, KwX} :
          /\ args = << >> \/ kwargs = NoKwargs
          /\ DepsAReady(c, args)
          /\ ContextGet(c, TUntyped, NoKey, args, kwargs)
    \/ \E c \in Ctxs :
          DepsAReady(c, << >>) /\ ContextResolve(c, TUntyped, << >>, NoKwargs)
    \/ \E c \in Ctxs : ContextGet(c, TIClass, NoKey, << >>, << >>)

SpecSignature == Init /\ [][NextSignature]_vars

\* A parameter of sig has no declared type and no explicit positional or
\* keyword value.
UncoveredUntyped(sig, args, kwargs) ==
    \E i \in Remaining(sig, args, kwargs) : sig[i].iface = NoIface

UntypedCtors == {TUntyped, TAFactory}

\* The constructor the last operation was about: the one resolve was given,
\* or the one registered at the key of get.
LastCtor ==
    IF last.op = "resolve"
    THEN CHOOSE ctor \in UntypedCtors : GenerateIfaceKey(ctor) = last.key
    ELSE Winner(last.c, last.key).type

\* The last operation realized a factory: it was a resolve, or a get of a
\* held key that was not answered from the cache.
LastRealized ==
    /\ \/ last.op = "resolve"
       \/ last.op = "get" /\ Held(last.c, last.key)
    /\ ~(last.status = "ok" /\ last.made = 0)

Realizes(ctor) ==
    \/ last'.op = "resolve" /\ last'.key = GenerateIfaceKey(ctor)
    \/ /\ last'.op = "get" /\ Held(last'.c, last'.key)
       /\ Winner(last'.c, last'.key).type = ctor
       /\ Winner(last'.c, last'.key).fid \notin DOMAIN cache[last'.c]

\* The value the call gives the i-th parameter explicitly.
Explicit(sig, i, args, kwargs) ==
    IF i <= Len(args) THEN args[i] ELSE kwargs[sig[i].name]

C8Step ==
    /\ \A ctor \in UntypedCtors :
         (last'.op \in InjectorOps /\ Realizes(ctor)) =>
           IF UncoveredUntyped(Dependencies(Sig(ctor)), last'.args, last'.kwargs)
           THEN /\ last'.status = "BadSignature"
                /\ heap' = heap /\ cache' = cache
           ELSE /\ last'.status = "ok"
                /\ Fresh(last'.val)
                /\ LET call == heap'[last'.val.n].call
                       deps == Dependencies(Sig(ctor))
                   IN  /\ SessionParam(Sig(ctor)) => call[1] = CtxRef(last'.c)
                       /\ \A i \in 1..Len(deps) :
                            deps[i].iface = NoIface =>
                              call[Len(call) - Len(deps) + i] =
                                 Explicit(deps, i, last'.args, last'.kwargs)
    /\ (last'.op \in InjectorOps /\ last'.status = "BadSignature") =>
         \E ctor \in UntypedCtors :
            /\ Realizes(ctor)
            /\ UncoveredUntyped(Dependencies(Sig(ctor)), last'.args, last'.kwargs)

FailedOn(c) ==
    last.op = "get" /\ last.c = c /\ last.status = "DependencyInjectionError"

NextRetry ==
    \/ \E cache_ \in BOOLEAN :
          AppFactory(TClassA, FALSE, FALSE, cache_, NoKey, NoIface, NoScope)
    \/ \E c \in Ctxs : AppCreateContext(c, {})
    \/ \E c \in Ctxs : NewContext(c)
    \/ \E c \in Ctxs : ctxState[c] = "new" /\ Mount(c)
    \/ \E c \in Ctxs :
          ctxState[c] = "mounted" /\ ~Held(c, "_ClassA")
              /\ ContextFactory(c, TClassA, FALSE, FALSE, TRUE, NoKey, NoIface)
    \/ \E c \in Ctxs : ContextGet(c, TClassA, NoKey, << IntVal(1) >>, << >>)
    \/ \E c \in Ctxs, cache_ \in BOOLEAN :
          FailedOn(c) /\ ContextFactory(c, TDepsA, FALSE, FALSE, cache_, NoKey, NoIface)
    \/ \E c \in Ctxs :
          FailedOn(c) /\ ContextInstance(c, ExtRef(1), FALSE, FALSE, NoKey, NoIface)

SpecRetry == Init /\ [][NextRetry]_vars

ContextRegOps == {"Context.factory", "Context.instance"}

\* The objects constructed by the step.
Built == { i \in 1..Len(heap') : i > Len(heap) }

\* The object the last get returned is a _ClassA built from the explicit
\* argument and a realization of the registered _DepsA.
FullyBuilt ==
    /\ last.val.t = "obj"
    /\ heap[last.val.n].cls = TClassA
    /\ Len(heap[last.val.n].fields) = 2
    /\ heap[last.val.n].fields[1] = last.args[1]
    /\ RealizationOf(last.c, Winner(last.c, "_DepsA"), heap[last.val.n].fields[2])

C9Step ==
    /\ (last'.op = "get" /\ last'.status = "DependencyInjectionError") =>
         /\ Winner(last'.c, last'.key).fid \notin DOMAIN cache'[last'.c]
         /\ \A i \in Built : heap'[i].cls # Winner(last'.c, last'.key).type
    /\ (/\ FailedOn(last.c) \/ (last.op \in ContextRegOps /\ last.status = "ok")
        /\ last.op \in ContextRegOps => last.key = "_DepsA"
        /\ last'.op = "get" /\ last'.c = last.c /\ last'.key = "_ClassA") =>
            IF last.op \in ContextRegOps
            THEN last'.status = "ok" /\ FullyBuilt'
            ELSE last'.status = "DependencyInjectionError"

\* C9: a get that fails with DependencyInjectionError neither caches nor
\* constructs the factory it was asked for; repeated at once it fails again,
\* and repeated after the missing dependency has been registered on the
\* context it succeeds with a fully constructed object.
C9_RetryAfterRegistering == [][C9Step]_vars

\* get(_ClassA, args=[1]) succeeded on a context whose _DepsA was registered
\* after the failure of an earlier get.
C9_Witness ==
    /\ last.op = "get" /\ last.status = "ok" /\ last.key = "_ClassA"
    /\ RegistryContains(local[last.c], "_DepsA")
    /\ FullyBuilt

(***************************************************************************)
(* _ClassB(class_a: _ClassA, deps_a: _DepsA) next to _ClassA, which cannot *)
(* be built without a value for v.                                         *)
(***************************************************************************)
NextCached ==
    \/ AppInstance(ExtRef(1), FALSE, FALSE, NoKey, NoIface, NoScope)
    \/ AppFactory(TDepsA, FALSE, FALSE, TRUE, NoKey, NoIface, NoScope)
    \/ \E cache_ \in BOOLEAN :
          AppFactory(TClassA, FALSE, FALSE, cache_, NoKey, NoIface, NoScope)
    \/ AppFactory(TClassB, FALSE, FALSE, FALSE, NoKey, NoIface, NoScope)
    \/ \E c \in Ctxs : AppCreateContext(c, {})
    \/ \E c \in Ctxs, args \in { << >>, << IntVal(1) >>, << IntVal(2) >> } :
          ContextGet(c, TClassA, NoKey, args, << >>)
    \/ \E c \in Ctxs : ContextGet(c, TClassB, NoKey, << >>, << >>)

SpecCached == Init /\ [][NextCached]_vars

\* The factory registered at key is cache-enabled and realized on context c.
CachedOn(c, key) ==
    /\ ctxState[c] = "mounted"
    /\ Held(c, key)
    /\ Winner(c, key).kind = "Factory"
    /\ Winner(c, key).cache
    /\ Winner(c, key).fid \in DOMAIN cache[c]

C10Step ==
    \A c \in Ctxs :
        /\ (cache[c] # << >> /\ CachedOn(c, "_ClassA")) =>
             /\ InjectorLookup(c, "_ClassA")' = InjectorLookup(c, "_ClassA")
             /\ Winner(c, "_ClassA").fid \in DOMAIN cache'[c]
             /\ cache'[c][Winner(c, "_ClassA").fid] = cache[c][Winner(c, "_ClassA").fid]
        /\ (last'.op = "get" /\ last'.c = c /\ last'.key = "_ClassA"
               /\ CachedOn(c, "_ClassA")) =>
             /\ last'.status = "ok"
             /\ last'.val = cache[c][Winner(c, "_ClassA").fid]
             /\ heap' = heap /\ cache' = cache
        /\ (last'.op = "get" /\ last'.c = c /\ last'.key = "_ClassB"
               /\ Held(c, "_ClassB")) =>
             IF CachedOn(c, "_ClassA")
             THEN /\ last'.status = "ok"
                  /\ Fresh(last'.val)
                  /\ heap'[last'.val.n].cls = TClassB
                  /\ heap'[last'.val.n].fields[1] = cache[c][Winner(c, "_ClassA").fid]
                  /\ \A i \in Built : heap'[i].cls # TClassA
             ELSE last'.status = "DependencyInjectionError"

\* C10: once the cache-enabled _ClassA is realized on a context it stays
\* realized there with the same object; from then on a get of
\* _ClassA with any explicit values returns the cached object and constructs
\* nothing, and get(_ClassB) constructs a _ClassB around that cached object
\* without constructing a _ClassA; until then get(_ClassB) fails with
\* DependencyInjectionError.
C10_CachedServesDependents == [][C10Step]_vars

\* get(_ClassB) returned an object whose class_a is the _ClassA that an
\* earlier get with an explicit value left in the cache.
C10_Witness ==
    /\ last.op = "get" /\ last.status = "ok" /\ last.key = "_ClassB"
    /\ CachedOn(last.c, "_ClassA")
    /\ heap[last.val.n].cls = TClassB
    /\ heap[last.val.n].fields[1] = cache[last.c][Winner(last.c, "_ClassA").fid]
    /\ heap[heap[last.val.n].fields[1].n].fields[1] \in {IntVal(1), IntVal(2)}

(***************************************************************************)
(* A bare Context, as in the context fixture: constructed, mounted without *)
(* providers, with registrations and lookups both before and after mount.  *)
(***************************************************************************)
NextMounted ==
    \/ \E c \in Ctxs : NewContext(c)
    \/ \E c \in Ctxs : Mount(c)
    \/ \E c \in Ctxs, force \in BOOLEAN :
          FewRegistered /\ ContextInstance(c, ExtRef(1), FALSE, force, NoKey, NoIface)
    \/ \E c \in Ctxs :
          FewRegistered /\ ContextFactory(c, TDepsA, FALSE, FALSE, TRUE, NoKey, NoIface)
    \/ \E c \in Ctxs : ContextGet(c, TDepsA, NoKey, << >>, << >>)
    \/ \E c \in Ctxs : ContextGetList(c, TDepsA, NoKey, << >>, << >>)
    \/ \E c \in Ctxs : heap = << >> /\ ContextResolve(c, TDepsA, << >>, << >>)

SpecMounted == Init /\ [][NextMounted]_vars

\* The last operation was a registration on a context that was mounted.
RegisteredOnMounted ==
    last.op \in ContextRegOps /\ ctxState[last.c] = "mounted"

\* C11 as stated: a registration on a mounted context is rejected.
C11_Original == RegisteredOnMounted => last.status # "ok"

C11Step ==
    LET c == last'.c
        key == last'.key
    IN  /\ last'.op \in ContextRegOps =>
          /\ (last'.force \/ ~RegistryContains(local[c], key)) =>
               /\ last'.status = "ok"
               /\ RegistryContains(local'[c], key)
               /\ local'[c][key].items = << last'.inj >>
               /\ ctxState[c] = "mounted" => plist'[c][1] = LocalRef
          /\ (~last'.force /\ RegistryContains(local[c], key)) =>
               /\ last'.status = "ItemExists"
               /\ local' = local
          /\ ctxState' = ctxState /\ plist' = plist /\ cache' = cache
        /\ (/\ RegisteredOnMounted /\ last.status = "ok" /\ last.inj.kind = "Instance"
            /\ last'.op = "get" /\ last'.c = last.c /\ last'.key = last.key) =>
               last'.status = "ok" /\ last'.val = last.inj.val

\* C11 (amended): Context.register, Context.instance and Context.factory act
\* on a mounted context exactly as on an unmounted one: the injectable is
\* added to the local provider (or the call fails with ItemExists when the
\* key is taken and force is not set), and the context's injector, which
\* holds that same provider first, finds it: a get that follows the
\* registration of an instance returns that instance.
C11_RegistersAfterMount == [][C11Step]_vars

\* An instance was registered on a mounted context and is held by its local
\* provider.
C11_Witness ==
    /\ RegisteredOnMounted /\ last.status = "ok" /\ last.inj.kind = "Instance"
    /\ local[last.c][last.key].items = << last.inj >>

\* C12: on a context that has not been mounted, get, get_list and resolve
\* fail with ContextNotMountedError and construct nothing, cache nothing and
\* leave every provider as it was; on a mounted context none of them fails
\* with ContextNotMountedError.
C12Step ==
    last'.op \in InjectorOps =>
        IF ctxState[last'.c] # "mounted"
        THEN /\ last'.status = "ContextNotMountedError"
             /\ last'.made = 0
             /\ heap' = heap /\ cache' = cache
             /\ local' = local /\ providers' = providers
             /\ ctxState' = ctxState
        ELSE last'.status # "ContextNotMountedError"

C12_NotMountedFailsFirst == [][C12Step]_vars

\* get of a key the local provider holds failed on an unmounted context.
C12_Witness ==
    /\ last.op = "get" /\ last.status = "ContextNotMountedError"
    /\ ctxState[last.c] = "new"
    /\ RegistryContains(local[last.c], last.key)

(***************************************************************************)
(* Factories that take the context: a_factory(context), which calls        *)
(* context.get(_DepsA), and a_factory(context: Context). The App also      *)
(* holds an object under the key of the Context class.                     *)
(***************************************************************************)
NextOwner ==
    \/ AppInstance(ExtRef(1), FALSE, FALSE, NoKey, NoIface, NoScope)
    \/ AppInstance(ExtRef(2), FALSE, FALSE, NoKey, TContext, NoScope)
    \/ Registering /\ AppFactory(TAFactory, FALSE, FALSE, TRUE, NoKey, TIClass, NoScope)
    \/ \E cache_ \in BOOLEAN :
          Registering /\ AppFactory(TCtxFactory, FALSE, FALSE, cache_, NoKey, TClassA, NoScope)
    \/ \E c \in Ctxs : AppCreateContext(c, {})
    \/ \E c \in Ctxs, iface \in {TContext, TIClass, TClassA} :
          ContextGet(c, iface, NoKey, << >>, << >>)

SpecOwner == Init /\ [][NextOwner]_vars

\* The keys at which the factories taking the context are registered.
OwnerKeys == {"_IClass", "_ClassA"}

C13Step ==
    /\ (last'.op = "get" /\ last'.key = GenerateIfaceKey(TContext)) =>
         /\ last'.status = "ok"
         /\ last'.val = CtxRef(last'.c)
         /\ last'.made = 0
    /\ (last'.op = "get" /\ last'.key \in OwnerKeys /\ last'.status = "ok") =>
         /\ last'.val.t = "obj"
         /\ heap'[last'.val.n].call = << CtxRef(last'.c) >>

\* C13: on a mounted context get(Context) returns that very context, also
\* when a scope provider holds another object under the same key, and the
\* object a get returns for a factory that takes the context, by the
\* implicit first parameter or by a parameter declared Context, was built
\* by a call of the factory with the context the get was made on.
C13_OwningContextInjected == [][C13Step]_vars

\* A factory that takes the context was realized on the second context
\* after it had been realized on the first.
C13_Witness ==
    /\ last.op = "get" /\ last.key \in OwnerKeys /\ last.status = "ok"
    /\ last.c = 2 /\ last.made > 0
    /\ \E i \in 1..Len(heap) : heap[i].call = << CtxRef(1) >>

(***************************************************************************)
(* Several contexts created from one App over the same root provider, and  *)
(* get, get_list and resolve on each of them.                              *)
(***************************************************************************)
NextShared ==
    \/ \E cache_ \in BOOLEAN :
          Registering /\ AppFactory(TDepsA, FALSE, FALSE, cache_, NoKey, NoIface, NoScope)
    \/ Registering /\ AppFactory(TDepsA, TRUE, FALSE, TRUE, NoKey, TIClass, NoScope)
    \/ \E c \in Ctxs : AppCreateContext(c, {})
    \/ \E c \in Ctxs : ContextGet(c, TDepsA, NoKey, << >>, << >>)
    \/ \E c \in Ctxs : ContextGetList(c, TIClass, NoKey, << >>, << >>)
    \/ \E c \in Ctxs : ContextResolve(c, TDepsA, << >>, << >>)
    \/ \E c \in Ctxs : ContextResolve(c, TClassA, << IntVal(1) >>, << >>)

SpecShared == Init /\ [][NextShared]_vars

C14Step ==
    /\ last'.op \in InjectorOps =>
         /\ \A d \in Ctxs \ {last'.c} : cache'[d] = cache[d]
         /\ \A i \in 1..Len(heap) : heap'[i] = heap[i]
         /\ providers' = providers /\ local' = local /\ plist' = plist
    /\ \A c \in Ctxs, d \in Ctxs :
         c # d => \A fid \in DOMAIN cache'[c] \cap DOMAIN cache'[d] :
                      cache'[c][fid] # cache'[d][fid]

\* C14: a get, get_list or resolve on one context leaves the cache of every
\* other context, the objects built before, and the providers and provider
\* lists as they were; a cache-enabled factory realized on two contexts of
\* the same App is held as two distinct objects.
C14_CachePerContext == [][C14Step]_vars

\* One cache-enabled factory has been realized on both contexts.
C14_Witness ==
    /\ last.op \in InjectorOps /\ last.status = "ok" /\ last.made > 0
    /\ \E fid \in DOMAIN cache[1] \cap DOMAIN cache[2] :
         cache[1][fid] # cache[2][fid]

\* The cache-enabled factory get(_DepsA) would realize on context c, if any.
CachedDepsA(c) ==
    /\ Held(c, "_DepsA")
    /\ Winner(c, "_DepsA").kind = "Factory"
    /\ Winner(c, "_DepsA").cache

C15Step ==
    LET c == last'.c
    IN  /\ (last'.op = "resolve" /\ last'.status = "ok") =>
             /\ providers' = providers /\ local' = local
             /\ Fresh(last'.val) /\ last'.made >= 1
             /\ \A fid \in DOMAIN cache'[c] : cache'[c][fid] # last'.val
             /\ \A fid \in DOMAIN cache[c] :
                    fid \in DOMAIN cache'[c] /\ cache'[c][fid] = cache[c][fid]
             /\ (last'.key = "_ClassA" /\ CachedDepsA(c)) =>
                    /\ Winner(c, "_DepsA").fid \in DOMAIN cache'[c]
                    /\ heap'[last'.val.n].fields[2] = cache'[c][Winner(c, "_DepsA").fid]
        /\ (/\ last.op = "resolve" /\ last.status = "ok"
            /\ last'.op = "get" /\ last'.c = last.c /\ last'.status = "ok") =>
               /\ last'.val # last.val
               /\ CachedDepsA(c) =>
                    /\ Winner(c, "_DepsA").fid \in DOMAIN cache[c] => last'.made = 0
                    /\ last.key = "_ClassA" => last'.val = heap[last.val.n].fields[2]

\* C15: a successful resolve adds no key to a provider, returns an object
\* built by this call (also when a cache-enabled factory of the same class
\* is already realized) and puts that object in no cache; entries already
\* cached stay. A cache-enabled dependency it receives is the object the
\* context has cached for it, which a get of the dependency then returns;
\* a get that follows a resolve never returns the resolved object.
C15_ResolveIsOneShot == [][C15Step]_vars

\* resolve(_ClassA, args=[1]) built an object on the _DepsA that an earlier
\* get had cached.
C15_Witness ==
    /\ last.op = "resolve" /\ last.status = "ok" /\ last.key = "_ClassA"
    /\ last.made = 1
    /\ CachedDepsA(last.c)
    /\ heap[last.val.n].fields[2] = cache[last.c][Winner(last.c, "_DepsA").fid]

(***************************************************************************)
(* Objects registered with instance() on the App and on a context, and get *)
(* with and without explicit values on every context.                      *)
(***************************************************************************)
NextInstance ==
    \/ \E item \in Prebuilt, force \in BOOLEAN :
          FewRegistered /\ AppInstance(item, FALSE, force, NoKey, TIClass, NoScope)
    \/ \E c \in Ctxs : AppCreateContext(c, {})
    \/ \E c \in Ctxs :
          FewRegistered /\ ContextInstance(c, ExtRef(2), FALSE, FALSE, NoKey, TIClass)
    \/ \E c \in Ctxs, args \in ArgLists, kwargs \in {NoKwargs, KwX} :
          ContextGet(c, TIClass, NoKey, args, kwargs)

SpecInstance == Init /\ [][NextInstance]_vars

InstanceOps == {"App.instance", "Context.instance"}

C16Step ==
    /\ (last'.op \in InstanceOps /\ last'.status = "ok") =>
         /\ last'.inj.kind = "Instance" /\ last'.inj.val \in Prebuilt
         /\ (IF last'.ref = LocalRef THEN local'[last'.c]
             ELSE providers'[last'.ref])[last'.key].items = << last'.inj >>
    /\ (last'.op = "get" /\ Held(last'.c, last'.key)
           /\ Winner(last'.c, last'.key).kind = "Instance") =>
         /\ last'.status = "ok"
         /\ last'.val = Winner(last'.c, last'.key).val
         /\ last'.made = 0 /\ heap' = heap /\ cache' = cache
    /\ (/\ last.op = "get" /\ last'.op = "get" /\ last'.key = last.key
        /\ last.c # last'.c
        /\ Held(last.c, last.key) /\ Held(last'.c, last.key)
        /\ Winner(last.c, last.key).kind = "Instance"
        /\ Winner(last'.c, last.key) = Winner(last.c, last.key)) =>
           last'.val = last.val

\* C16: instance() registers the object itself; a get whose key is held by
\* an Instance returns the wrapped object, whatever positional and keyword
\* values are passed, constructs nothing and caches nothing, and two
\* contexts that find the same Instance return the same object.
C16_InstanceIsItself == [][C16Step]_vars

\* The second context returned the registered object for a get with
\* explicit values after the first context had returned it.
C16_Witness ==
    /\ last.op = "get" /\ last.status = "ok" /\ last.c = 2
    /\ last.args # << >> /\ last.kwargs # NoKwargs
    /\ last.val \in Prebuilt
    /\ ctxState[1] = "mounted"
    /\ Winner(1, last.key) = Winner(2, last.key)
    /\ heap = << >>

(***************************************************************************)
(* Registration with and without key and iface, and get by interface and   *)
(* by explicit key, the key given as key= (as App.register takes it and    *)
(* test_register_instance_with_key passes it) or as name=.                 *)
(***************************************************************************)
ExplicitKeys == {NoKey, "a"}

NextKey ==
    \/ \E item \in Prebuilt, key \in ExplicitKeys, iface \in {NoIface, TIClass} :
          FewRegistered /\ AppInstance(item, FALSE, FALSE, key, iface, NoScope)
    \/ AppFactory(TDepsA, FALSE, FALSE, TRUE, NoKey, NoIface, NoScope)
    \/ \E c \in Ctxs : AppCreateContext(c, {})
    \/ \E c \in Ctxs, iface \in {TIClass, TDepsA} :
          ContextGet(c, iface, NoKey, << >>, << >>)
    \/ \E c \in Ctxs, kw \in {"key", "name"} :
          ContextGetKeyword(c, TIClass, kw, "a", << >>, << >>)

SpecKey == Init /\ [][NextKey]_vars

\* C17: the effective key of a registration is the explicit key, else the
\* key of iface, else the key of the injectable's own type, and get derives
\* its lookup key by the same rule: a get whose lookup key is held by a
\* provider of the context returns what was registered there, so
\* get(I, key=k) returns the instance registered with (iface=I, key=k).
C17_EffectiveKey ==
    (last.op = "get" /\ Held(last.c, last.key)) =>
        /\ last.status = "ok"
        /\ Winner(last.c, last.key).kind = "Instance" =>
               last.val = Winner(last.c, last.key).val

(***************************************************************************)
(* The classes of the tests, whose dependency graph is acyclic:            *)
(* _ClassB -> _ClassA -> _DepsA and a_factory -> _DepsA, registered on the  *)
(* App and asked for on one context.                                       *)
(***************************************************************************)
NextAcyclic ==
    \/ Registering /\ AppInstance(ExtRef(1), FALSE, FALSE, NoKey, NoIface, NoScope)
    \/ Registering /\ AppFactory(TClassA, FALSE, FALSE, TRUE, NoKey, NoIface, NoScope)
    \/ Registering /\ AppFactory(TClassB, FALSE, FALSE, FALSE, NoKey, NoIface, NoScope)
    \/ Registering /\ AppFactory(TAFactory, FALSE, FALSE, FALSE, NoKey, TIClass, NoScope)
    \/ Registering /\ AppFactory(TClassA, TRUE, FALSE, FALSE, "list", NoIface, NoScope)
    \/ AppCreateContext(1, {})
    \/ \E args \in ArgLists : ContextGet(1, TClassA, NoKey, args, << >>)
    \/ \E iface \in {TClassB, TIClass} : ContextGet(1, iface, NoKey, << >>, << >>)
    \/ ContextGetList(1, TClassA, "list", << IntVal(1) >>, << >>)
    \/ ContextResolve(1, TClassB, << >>, << >>)

SpecAcyclic == Init /\ [][NextAcyclic]_vars

Max(S) == CHOOSE x \in S : \A y \in S : y <= x

\* The keys a call of the constructor asks the injector for: those of its
\* declared dependencies and the one in the body of a_factory.
AsksFor(ctor) ==
    { GenerateIfaceKey(Dependencies(Sig(ctor))[i].iface) :
        i \in { j \in 1..Len(Dependencies(Sig(ctor))) :
                  Dependencies(Sig(ctor))[j].iface # NoIface } }
    \cup (IF ctor = TAFactory THEN {GenerateIfaceKey(TDepsA)} ELSE {})

RECURSIVE GraphDepth(_, _, _)
RECURSIVE CtorDepth(_, _, _)
\* The depth of the dependency graph below a key, on context c: the number
\* of keys on the longest chain of dependencies that starts at the key,
\* counted up to n.
GraphDepth(c, key, n) ==
    IF n = 0 THEN 0
    ELSE IF ~Held(c, key) THEN 1
    ELSE Max({ IF InjectorLookup(c, key).items[i].kind = "Instance" THEN 1
               ELSE CtorDepth(c, InjectorLookup(c, key).items[i].type, n) :
               i \in 1..Len(InjectorLookup(c, key).items) })

\* The same below a constructor.
CtorDepth(c, ctor, n) ==
    1 + Max({0} \cup { GraphDepth(c, k, n - 1) : k \in AsksFor(ctor) })

DeepestGraph == MaxDepth + 1

\* The constructor of the name.
CtorNamed(name) == CHOOSE t \in {TDepsA, TClassA, TClassB, TAFactory} : t.name = name

\* The call of the step, made again with no more nesting allowed than the
\* depth of the dependency graph, has the same outcome.
WithinGraphDepth ==
    LET c == last'.c
        key == last'.key
    IN  CASE last'.op = "get" ->
               \E r \in { InjectorGet(c, key, last'.args, last'.kwargs, heap, cache[c],
                                      MaxDepth + 1 - GraphDepth(c, key, DeepestGraph)) } :
                    r.status = last'.status /\ r.val = last'.val /\ r.heap = heap'
          [] last'.op = "resolve" ->
               \E r \in { InjectorResolve(c, InjectableFactory(CtorNamed(key), FALSE, 0),
                                          last'.args, last'.kwargs, heap, cache[c],
                                          MaxDepth + 1
                                            - CtorDepth(c, CtorNamed(key), DeepestGraph)) } :
                    r.status = last'.status /\ r.val = last'.val /\ r.heap = heap'
          [] OTHER ->
               \A i \in 1..Len(InjectorLookup(c, key).items) :
                    \E r \in { InjectorResolve(c, InjectorLookup(c, key).items[i],
                                   last'.args, last'.kwargs, heap, cache[c],
                                   MaxDepth + 1
                                     - CtorDepth(c, InjectorLookup(c, key).items[i].type,
                                                 DeepestGraph)) } :
                         r.status # "RecursionError"

C18Step ==
    last'.op \in InjectorOps =>
        /\ last'.status \in Taxonomy
        /\ last'.status = "ok" =>
              IF last'.op = "get_list" THEN Len(last'.vals) > 0 ELSE last'.val # NoVal
        /\ WithinGraphDepth

CycValues == { << >>, << ExtRef(1) >> }

NextCyclic ==
    \/ \E cache_ \in BOOLEAN :
          Registering /\ AppFactory(TCycA, FALSE, FALSE, cache_, NoKey, NoIface, NoScope)
    \/ \E cache_ \in BOOLEAN :
          Registering /\ AppFactory(TCycB, FALSE, FALSE, cache_, NoKey, NoIface, NoScope)
    \/ \E c \in Ctxs : AppCreateContext(c, {})
    \/ \E c \in Ctxs, iface \in {TCycA, TCycB}, args \in CycValues :
          ContextGet(c, iface, NoKey, args, << >>)

SpecCyclic == Init /\ [][NextCyclic]_vars

\* Both factories are registered and neither is realized on context c.
CycleOpen(c) ==
    /\ Held(c, "_CycA") /\ Held(c, "_CycB")
    /\ Winner(c, "_CycA").fid \notin DOMAIN cache[c]
    /\ Winner(c, "_CycB").fid \notin DOMAIN cache[c]

C19Step ==
    (/\ last'.op = "get" /\ last'.key \in {"_CycA", "_CycB"}
     /\ last'.args = << >> /\ last'.kwargs = << >>
     /\ CycleOpen(last'.c)) =>
        /\ last'.status = "RecursionError"
        /\ last'.status \notin Taxonomy
        /\ last'.val = NoVal
        /\ heap' = heap /\ cache' = cache

NamedHolding(c, key) == ScopesHolding(c, key) \cap ctxScopes[c]

\* C20: the scope providers of a context are ordered most specific first:
\* get of a key that the root scope and a named scope of the context both
\* register (and the context itself does not) returns the injectable of the
\* named scope, on every context created with that scope.
C20_MostSpecificFirst ==
    (/\ last.op = "get"
     /\ ~RegistryContains(local[last.c], last.key)
     /\ ROOT \in ScopesHolding(last.c, last.key)
     /\ NamedHolding(last.c, last.key) # {}) =>
        /\ last.status = "ok"
        /\ \E sc \in NamedHolding(last.c, last.key) :
              RealizationOf(last.c, providers[sc][last.key].items[1], last.val)

(***************************************************************************)
(* A cache-enabled factory realized on a context, and another registered   *)
(* under the same key afterwards: on the App with force, or on the context *)
(* itself.                                                                 *)
(***************************************************************************)
NextStale ==
    \/ \E force \in BOOLEAN :
          FewRegistered /\ AppFactory(TDepsA, FALSE, force, TRUE, NoKey, TIClass, NoScope)
    \/ \E c \in Ctxs : AppCreateContext(c, {})
    \/ \E c \in Ctxs, force \in BOOLEAN :
          FewRegistered /\ ContextFactory(c, TDepsA, FALSE, force, TRUE, NoKey, TIClass)
    \/ \E c \in Ctxs : ContextGet(c, TIClass, NoKey, << >>, << >>)

SpecStale == Init /\ [][NextStale]_vars

\* The factory registered by the last operation is the one get of its key
\* would realize on context c, which has cached a realization of another.
Superseded(c) ==
    /\ last.op \in AppRegOps \cup ContextRegOps /\ last.status = "ok"
    /\ last.inj.kind = "Factory"
    /\ ctxState[c] = "mounted"
    /\ Held(c, last.key) /\ Winner(c, last.key) = last.inj
    /\ cache[c] # << >>

C21Step ==
    (/\ last'.op = "get" /\ last'.key = last.key
     /\ Superseded(last'.c)) =>
        /\ last'.status = "ok"
        /\ Fresh(last'.val)
        /\ \A fid \in DOMAIN cache[last'.c] :
              /\ cache[last'.c][fid] # last'.val
              /\ fid # last.inj.fid
        /\ cache'[last'.c] = (last.inj.fid :> last'.val) @@ cache[last'.c]

\* C21: when a factory has been realized and cached on a context and another
\* factory is then registered under the same key so that it is the one the
\* context finds (forced on the same scope, or registered on the context),
\* the next get of the key builds a realization of the new factory: the
\* value is none of the cached ones, and it is cached under the identity of
\* the new factory next to the old entry.
C21_CacheKeyedByFactory == [][C21Step]_vars

\* A get has built the realization of a factory registered after another
\* factory of the same key had been cached on the context.
C21_Witness ==
    /\ last.op = "get" /\ last.status = "ok" /\ last.made = 1
    /\ Cardinality(DOMAIN cache[last.c]) = 2
    /\ cache[last.c][Winner(last.c, last.key).fid] = last.val

(***************************************************************************)
(* inspect on a context whose providers register the same key in the root  *)
(* scope, in a named scope and on the context, singly and as a list.       *)
(***************************************************************************)
NextInspect ==
    \/ \E scope \in {NoScope, "test"}, item \in {TDepsA, TClassA} :
          FewRegistered /\ AppFactory(item, FALSE, FALSE, TRUE, NoKey, TIClass, scope)
    \/ \E scope \in {NoScope, "test"} :
          FewRegistered /\ AppFactory(TDepsA, TRUE, FALSE, TRUE, NoKey, TIClass, scope)
    \/ \E scopes \in SUBSET NamedScopes : AppCreateContext(1, scopes)
    \/ NewContext(1)
    \/ FewRegistered /\ ContextInstance(1, ExtRef(1), FALSE, FALSE, NoKey, TIClass)
    \/ ContextInspect(1)
    \/ ContextGet(1, TIClass, NoKey, << >>, << >>)
    \/ ContextGetList(1, TIClass, NoKey, << >>, << >>)

SpecInspect == Init /\ [][NextInspect]_vars

\* Every key registered in a provider of context c.
KeysOf(c) ==
    UNION { DOMAIN ProviderRegistry(c, plist[c][i]) : i \in 1..Len(plist[c]) }

C22Step ==
    /\ (last'.op = "inspect" /\ ctxState[last'.c] = "mounted") =>
         /\ last'.status = "ok"
         /\ DOMAIN last'.val.injectables = KeysOf(last'.c)
         /\ DOMAIN ToDict(last'.val.injectables) = KeysOf(last'.c)
         /\ \A k \in KeysOf(last'.c) :
              /\ last'.val.injectables[k].key = k
              /\ last'.val.injectables[k].mode = InjectorLookup(last'.c, k).mode
              /\ last'.val.injectables[k].items = InjectorLookup(last'.c, k).items
              /\ InjectorLookup(last'.c, k).mode = "single" =>
                    ToDict(last'.val.injectables)[k]
                        = ItemToDict(k, InjectorLookup(last'.c, k).items[1])
              /\ InjectorLookup(last'.c, k).mode = "list" =>
                    Len(ToDict(last'.val.injectables)[k])
                        = Len(InjectorLookup(last'.c, k).items)
    /\ (/\ last.op = "inspect" /\ last.status = "ok"
        /\ last'.op \in LookupOps /\ last'.c = last.c /\ last'.status = "ok") =>
           /\ last'.key \in DOMAIN last.val.injectables
           /\ IF last'.op = "get"
              THEN RealizedNext(last'.c, last.val.injectables[last'.key].items[1], last'.val)
              ELSE /\ Len(last'.vals) = Len(last.val.injectables[last'.key].items)
                   /\ \A j \in 1..Len(last'.vals) :
                         RealizedNext(last'.c, last.val.injectables[last'.key].items[j],
                                      last'.vals[j])

\* C22: inspect on a mounted context has exactly one entry for every key
\* registered in a provider of the context, and the entry of a key is the
\* injectable, or the list of injectables, of the first provider of the
\* injector's list that holds the key: a get or get_list that follows
\* returns realizations of what the entry describes.
C22_InspectAgreesWithGet == [][C22Step]_vars

\* inspect was called on a context two of whose providers hold the key.
C22_Witness ==
    /\ last.op = "inspect" /\ last.status = "ok"
    /\ Cardinality({ i \in 1..Len(plist[last.c]) :
           RegistryContains(ProviderRegistry(last.c, plist[last.c][i]), "_IClass") }) >= 2
    /\ last.val.injectables["_IClass"].items = InjectorLookup(last.c, "_IClass").items

(***************************************************************************)
(* Registrations made on the App after contexts have been created over its *)
(* scopes.                                                                 *)
(***************************************************************************)
NextLate ==
    \/ \E c \in {1, 2}, scopes \in SUBSET NamedScopes : AppCreateContext(c, scopes)
    \/ \E scope \in {NoScope, "test"} :
          /\ ~Registering /\ FewRegistered
          /\ AppFactory(TDepsA, FALSE, FALSE, TRUE, NoKey, TIClass, scope)
    \/ \E scope \in {NoScope, "test"} :
          /\ ~Registering /\ FewRegistered
          /\ AppInstance(ExtRef(1), FALSE, FALSE, NoKey, NoIface, scope)
    \/ \E c \in {1, 2}, iface \in {TIClass, TDepsA} :
          ContextGet(c, iface, NoKey, << >>, << >>)

SpecLate == Init /\ [][NextLate]_vars

\* The provider the last registration went to is in the list of context c,
\* and no provider before it in the list holds the key.
FirstToHold(c) ==
    /\ ctxState[c] = "mounted"
    /\ \E i \in 1..Len(plist[c]) :
          /\ plist[c][i] = last.ref
          /\ \A j \in 1..(i - 1) :
                ~RegistryContains(ProviderRegistry(c, plist[c][j]), last.key)

C23Step ==
    /\ \A sc \in DOMAIN providers :
          /\ sc \in DOMAIN providers'
          /\ ~(last'.op \in AppRegOps /\ last'.ref = sc /\ last'.status = "ok") =>
                providers'[sc] = providers[sc]
    /\ (last'.op \in AppRegOps /\ last'.status = "ok") =>
          /\ plist' = plist
          /\ providers'[last'.ref][last'.key].items = << last'.inj >>
    /\ (/\ last.op \in AppRegOps /\ last.status = "ok"
        /\ last'.op = "get" /\ last'.key = last.key
        /\ FirstToHold(last'.c)) =>
           /\ last'.status = "ok"
           /\ RealizedNext(last'.c, last.inj, last'.val)
           /\ last.inj.kind = "Factory" => Fresh(last'.val)

\* C23: the App keeps one provider for each scope name: once made it stays,
\* and only a registration in that scope changes what it holds. A context
\* holds the providers of its scopes, not copies: an injectable registered
\* on the App after the context was created is what the next get of its
\* key on that context realizes, on every context whose list has the scope
\* (and no earlier provider holding the key).
C23_ScopeProvidersShared == [][C23Step]_vars

\* Both contexts have realized the factory that was registered on the App
\* after the first context had been created.
C23_Witness ==
    /\ last.op = "get" /\ last.status = "ok" /\ last.key = "_IClass"
    /\ last.c = 2 /\ last.made = 1
    /\ cache[1] # << >>
    /\ DOMAIN cache[1] = DOMAIN cache[2]

=============================================================================
